---------------------------- MODULE Spec2Model ----------------------------
(***************************************************************************)
(* Smart-Grid-System: the edge server's ingestion pipeline                 *)
(* (src/Edge Server/edge_server.py) and the loop of the producer           *)
(* (src/IOT Simulator/smart_meter.py).                                     *)
(*                                                                         *)
(*   clean_data         -> CleanData            (pure)                     *)
(*   detect_anomalies   -> DetectAnomalies      (readings_buffer)          *)
(*   receive_data       -> ReceiveData, Post, Backoff, Return              *)
(*   receive_data in the threads of the server, statement by statement     *)
(*                      -> TReceive, TCheck, ..., TReturn                  *)
(*   simulate_city_data -> Probe, WaitForServer, Generate, Send, Pause     *)
(*   DataSimulator.start, stop, simulate_and_send                          *)
(*                      -> StartTest, ..., StopJoined, SimCheck, SimSend   *)
(*   store_data (src/Central Server/central_server.py) -> StoreData        *)
(*                                                                         *)
(* Numbers.  Voltage, current and power are Python floats.  They are       *)
(* modelled by integers, on which the comparisons of clean_data are exact. *)
(* The z-score test |x - mean| / std > 3 of detect_anomalies is decided    *)
(* without division: with n values of sum S and sum of squares Q,          *)
(*     mean = S/n,  std^2 = (n*Q - S^2)/n^2,                               *)
(*     z > 3  <=>  (n*x - S)^2 > 9*(n*Q - S^2)   (when std > 0).           *)
(* When the two sides are EQUAL the exact z is 3 and the quotient of the    *)
(* two doubles is 3 up to rounding.  In IEEE double arithmetic, in the      *)
(* order of operations of np.mean and np.std, nine readings 1000.0          *)
(* followed by 1400.0 give z = 3.0, nine readings 1000.0 followed by 1003.0 *)
(* give z = 3.00000000000005, and nine readings 2409.44 followed by 2668.09 *)
(* give z = 3.000000000000003.  The comparison z_score > 3 then goes either *)
(* way; the model takes the rounding as an input (roundsUp) that is read in *)
(* this case only.  Away from equality the exact and the rounded comparison *)
(* agree for readings with two decimals.                                    *)
(***************************************************************************)
EXTENDS Integers, Sequences, FiniteSets, TLC

VARIABLES
    readings_buffer,  \* DataPreprocessor.readings_buffer: city -> list of power values
    last,             \* the last detect_anomalies call: its arguments and its result
    ncalls,           \* number of detect_anomalies calls made so far
    fed,              \* per city, the power values passed to detect_anomalies, in order
    verdicts,         \* per city, the anomaly values returned, in the same order
    pc,               \* where the request in hand is: idle, post, sleep, done
    reading,          \* receive_data: request.json
    cleaned,          \* receive_data: cleaned_reading, then processed_reading
    required_fields,  \* receive_data: the payload posted to the store
    store,            \* what the store answers to the 1st, 2nd, 3rd post of the request
    attempt,          \* receive_data: the loop variable
    responses,        \* the answers session.post has got for this request, in order
    sleeps,           \* the arguments of time.sleep for this request, in order
    result,           \* what receive_data returns to its caller
    nreq,             \* number of requests received so far
    mpc,              \* simulate_city_data: where the loop is
    consecutive_failures,  \* simulate_city_data: the local of that name
    probe,            \* what the health probe of this iteration came to
    posted,           \* number of posts to /receive_data made so far
    slept,            \* the argument of the last time.sleep of the loop
    iterations,       \* number of iterations of the loop begun so far
    sent,             \* what the last post to /receive_data came to
    meter_city,       \* __main__ of smart_meter.py: the index of the city in hand
    posted_for,       \* the cities a reading has been posted for
    threads,          \* per server thread, the receive_data call it is running
    arrived,          \* number of requests the threaded server has taken
    stored,           \* the rows store_data has committed for the request in hand
    running,          \* DataSimulator.running
    thread,           \* DataSimulator.thread: 0 for None, or the number of a Thread
    sims,             \* per Thread object made by start(), where it is
    handlers,         \* per server thread, the start or stop request it is running
    simreqs           \* number of start and stop requests taken so far

detectorVars == <<readings_buffer, last, ncalls, fed, verdicts>>

requestVars == <<pc, reading, cleaned, required_fields, store, attempt,
                 responses, sleeps, result, nreq>>

producerVars == <<mpc, consecutive_failures, probe, posted, slept, iterations,
                  sent, meter_city, posted_for>>

threadVars == <<threads, arrived>>

centralVars == <<stored>>

simulatorVars == <<running, thread, sims, handlers, simreqs>>

vars == <<readings_buffer, last, ncalls, fed, verdicts,
          pc, reading, cleaned, required_fields, store, attempt,
          responses, sleeps, result, nreq,
          mpc, consecutive_failures, probe, posted, slept, iterations,
          sent, meter_city, posted_for,
          threads, arrived, stored,
          running, thread, sims, handlers, simreqs>>

(***************************************************************************)
(* Program constants                                                       *)
(***************************************************************************)
WINDOW_SIZE == 10

Z_THRESHOLD == 3

VOLTAGE_THRESHOLD == <<220, 240>>

CURRENT_THRESHOLD == <<5, 15>>

(***************************************************************************)
(* Bounds of the model                                                     *)
(***************************************************************************)
MaxCalls == 11

MaxIterations == 6

MaxThreadRequests == 3

Cities == {"Mumbai", "Delhi"}

PowerValues == {1000, 1003}

(***************************************************************************)
(* JSON values of a request, and float()                                   *)
(***************************************************************************)
\* a JSON number
Num(n) == [kind |-> "num", num |-> n, digits |-> <<>>]

\* a JSON string of decimal digits, such as "230"
Str(ds) == [kind |-> "str", num |-> 0, digits |-> ds]

\* a JSON value float() does not take: null, or a string that is no number
Junk == [kind |-> "junk", num |-> 0, digits |-> <<>>]

\* the key is absent from the request
Missing == [kind |-> "missing", num |-> 0, digits |-> <<>>]

RECURSIVE DigitsValue(_)
DigitsValue(ds) ==
    IF ds = <<>> THEN 0
    ELSE 10 * DigitsValue(SubSeq(ds, 1, Len(ds) - 1)) + ds[Len(ds)]

\* float(reading[key]): the value, or the exception raised
ParseFloat(key, f) ==
    CASE f.kind = "num"     -> [ok |-> TRUE,  val |-> f.num, error |-> ""]
      [] f.kind = "str"     -> [ok |-> f.digits # <<>>,
                                val |-> DigitsValue(f.digits),
                                error |-> IF f.digits # <<>> THEN "" ELSE "ValueError"]
      [] f.kind = "junk"    -> [ok |-> FALSE, val |-> 0, error |-> "ValueError"]
      [] f.kind = "missing" -> [ok |-> FALSE, val |-> 0, error |-> key]

(***************************************************************************)
(* Timestamps: an instant t written without offset, with an offset, with   *)
(* the suffix Z, or a value that is no ISO timestamp                       *)
(***************************************************************************)
Timestamp(form, t) == [form |-> form, t |-> t]

\* datetime.fromisoformat(s.replace('Z', '+00:00')).isoformat()
ParseTimestamp(ts) ==
    CASE ts.form = "naive"   -> [ok |-> TRUE,  val |-> Timestamp("naive", ts.t), error |-> ""]
      [] ts.form = "offset"  -> [ok |-> TRUE,  val |-> Timestamp("offset", ts.t), error |-> ""]
      [] ts.form = "Z"       -> [ok |-> TRUE,  val |-> Timestamp("offset", ts.t), error |-> ""]
      [] ts.form = "junk"    -> [ok |-> FALSE, val |-> Timestamp("junk", 0), error |-> "ValueError"]
      [] ts.form = "missing" -> [ok |-> FALSE, val |-> Timestamp("junk", 0), error |-> "timestamp"]

(***************************************************************************)
(* clean_data                                                              *)
(***************************************************************************)
\* a plausible slip: open intervals
InRangeOpen(x, range) == range[1] < x /\ x < range[2]

\* THRESHOLD[0] <= x <= THRESHOLD[1]
InRange(x, range) == range[1] <= x /\ x <= range[2]

\* the request has no key 'city'
NoCity == "(absent)"

\* a plausible slip: the except clause logs the error and returns what it
\* has instead of raising
CleanFailureSwallowed(e) ==
    [ ok |-> TRUE, error |-> e, voltage |-> 0, current |-> 0,
      power_consumption |-> 0, city |-> "", timestamp |-> Timestamp("junk", 0),
      status |-> "invalid", flagged |-> TRUE, anomaly |-> FALSE ]

\* the except clause of clean_data: the exception is logged and raised again
CleanFailure(e) ==
    [ ok |-> FALSE, error |-> e, voltage |-> 0, current |-> 0,
      power_consumption |-> 0, city |-> "", timestamp |-> Timestamp("junk", 0),
      status |-> "", flagged |-> FALSE, anomaly |-> FALSE ]

\* the formatted reading, or the exception clean_data re-raises; the fields
\* are converted in the order of the code
CleanData(r) ==
    LET voltage == ParseFloat("voltage", r.voltage)
        current == ParseFloat("current", r.current)
        power   == ParseFloat("power_consumption", r.power_consumption)
        ts      == ParseTimestamp(r.timestamp)
        is_valid == /\ InRange(voltage.val, VOLTAGE_THRESHOLD)
                    /\ InRange(current.val, CURRENT_THRESHOLD)
    IN  IF ~voltage.ok THEN CleanFailure(voltage.error)
        ELSE IF ~current.ok THEN CleanFailure(current.error)
        ELSE IF ~power.ok THEN CleanFailure(power.error)
        ELSE IF ~ts.ok THEN CleanFailure(ts.error)
        ELSE IF r.city = NoCity THEN CleanFailure("city")
        ELSE [ ok |-> TRUE, error |-> "",
               voltage |-> voltage.val, current |-> current.val,
               power_consumption |-> power.val, city |-> r.city,
               timestamp |-> ts.val,
               status |-> IF is_valid THEN "valid" ELSE "invalid",
               flagged |-> ~is_valid,
               anomaly |-> FALSE ]

(***************************************************************************)
(* Arithmetic on a window                                                  *)
(***************************************************************************)
RECURSIVE SeqSum(_)
SeqSum(s) == IF s = <<>> THEN 0 ELSE Head(s) + SeqSum(Tail(s))

RECURSIVE SeqSumSq(_)
SeqSumSq(s) == IF s = <<>> THEN 0 ELSE Head(s) * Head(s) + SeqSumSq(Tail(s))

\* n^2 * np.std(power_values)^2
VarTimesN2(w) == Len(w) * SeqSumSq(w) - SeqSum(w) * SeqSum(w)

\* n^2 * (current_power - np.mean(power_values))^2
DevTimesN2(w, x) == (Len(w) * x - SeqSum(w)) * (Len(w) * x - SeqSum(w))

\* a plausible slip: "if std_power >= 0"
StdPositiveOrZero(w) == VarTimesN2(w) >= 0

\* the guard of the division: "if std_power > 0"
StdPositive(w) == VarTimesN2(w) > 0

\* the division (current_power - mean_power) / std_power is executed with
\* std_power = 0
DividesByZero(w) == StdPositive(w) /\ VarTimesN2(w) = 0

\* the exact z-score equals the threshold: rounding decides z_score > 3
ZTie(w, x) ==
    /\ VarTimesN2(w) > 0
    /\ DevTimesN2(w, x) = Z_THRESHOLD * Z_THRESHOLD * VarTimesN2(w)

\* a plausible slip: the threshold of the comparison is 2 standard deviations
ZScoreExceedsTwo(w, x, roundsUp) ==
    /\ StdPositive(w)
    /\ \/ DevTimesN2(w, x) > 2 * 2 * VarTimesN2(w)
       \/ ZTie(w, x) /\ roundsUp

\* z_score > 3, with z_score = 0 when the guard fails
ZScoreExceeds(w, x, roundsUp) ==
    /\ StdPositive(w)
    /\ \/ DevTimesN2(w, x) > Z_THRESHOLD * Z_THRESHOLD * VarTimesN2(w)
       \/ ZTie(w, x) /\ roundsUp

(***************************************************************************)
(* detect_anomalies                                                        *)
(***************************************************************************)
\* the list of a city, created empty on the first reading of the city
BufferOf(buf, city) == IF city \in DOMAIN buf THEN buf[city] ELSE <<>>

\* a plausible slip: "if len(...) >= WINDOW_SIZE" before pop(0)
AppendAndEvictAtSize(w, x, n) ==
    LET appended == Append(w, x)
    IN  IF Len(appended) >= n THEN Tail(appended) ELSE appended

\* a plausible slip: pop() for pop(0), the newest entry is removed
AppendAndEvictNewest(w, x, n) ==
    LET appended == Append(w, x)
    IN  IF Len(appended) > n THEN SubSeq(appended, 1, Len(appended) - 1) ELSE appended

\* append, then pop(0) when the list is longer than the window
AppendAndEvict(w, x, n) ==
    LET appended == Append(w, x)
    IN  IF Len(appended) > n THEN Tail(appended) ELSE appended

\* a plausible slip: the window counts as full one reading early
EnoughReadingsEarly(w, n) == Len(w) >= n - 1

\* "if we have enough readings"
EnoughReadings(w, n) == Len(w) >= n

\* a plausible slip: the list is looked up under a key that is the same for
\* every city, so that all cities share one list
DetectAnomaliesShared(buf, city, x, n, roundsUp) ==
    LET shared == IF DOMAIN buf = {} THEN <<>>
                  ELSE buf[CHOOSE c \in DOMAIN buf : TRUE]
        w      == AppendAndEvict(shared, x, n)
        scored == EnoughReadings(w, n)
    IN  [ buffer  |-> [c \in DOMAIN buf \cup {city} |-> w],
          scored  |-> scored,
          zerodiv |-> scored /\ DividesByZero(w),
          anomaly |-> IF scored THEN ZScoreExceeds(w, x, roundsUp) ELSE FALSE ]

\* a plausible slip: power_values is taken before the append, so the mean
\* and the deviation leave the new reading out
DetectAnomaliesStale(buf, city, x, n, roundsUp) ==
    LET before == BufferOf(buf, city)
        w      == AppendAndEvict(before, x, n)
        scored == EnoughReadings(w, n)
    IN  [ buffer  |-> [c \in DOMAIN buf \cup {city} |-> IF c = city THEN w ELSE buf[c]],
          scored  |-> scored,
          zerodiv |-> scored /\ DividesByZero(before),
          anomaly |-> IF scored THEN ZScoreExceeds(before, x, roundsUp) ELSE FALSE ]

\* the whole call: the new buffer table, whether the scoring branch was
\* taken, and reading['anomaly']
DetectAnomalies(buf, city, x, n, roundsUp) ==
    LET w      == AppendAndEvict(BufferOf(buf, city), x, n)
        scored == EnoughReadings(w, n)
    IN  [ buffer  |-> [c \in DOMAIN buf \cup {city} |-> IF c = city THEN w ELSE buf[c]],
          scored  |-> scored,
          zerodiv |-> scored /\ DividesByZero(w),
          anomaly |-> IF scored THEN ZScoreExceeds(w, x, roundsUp) ELSE FALSE ]

\* what the rounding of the quotient can be for this call: it is read only
\* when the call scores a reading whose exact z-score equals the threshold
Roundings(buf, city, x, n) ==
    LET w == AppendAndEvict(BufferOf(buf, city), x, n)
    IN  IF EnoughReadings(w, n) /\ ZTie(w, x) THEN BOOLEAN ELSE {FALSE}

NoCall == [ called |-> FALSE, city |-> "", power |-> 0, before |-> <<>>,
            scored |-> FALSE, zerodiv |-> FALSE, anomaly |-> FALSE ]

\* one call of detect_anomalies(city, reading) with reading['power_consumption'] = x
Detect(city, x, roundsUp, n) ==
    LET r == DetectAnomalies(readings_buffer, city, x, n, roundsUp)
    IN  /\ readings_buffer' = r.buffer
        /\ last' = [ called |-> TRUE, city |-> city, power |-> x,
                     before |-> BufferOf(readings_buffer, city),
                     scored |-> r.scored, zerodiv |-> r.zerodiv,
                     anomaly |-> r.anomaly ]
        /\ fed' = [fed EXCEPT ![city] = Append(@, x)]
        /\ verdicts' = [verdicts EXCEPT ![city] = Append(@, r.anomaly)]

\* no reading has been scored yet
InitDetector ==
    /\ readings_buffer = <<>>
    /\ last = NoCall
    /\ ncalls = 0
    /\ fed = [c \in Cities |-> <<>>]
    /\ verdicts = [c \in Cities |-> <<>>]

(***************************************************************************)
(* receive_data                                                            *)
(***************************************************************************)
max_retries == 3

retry_delay == 1

\* What one session.post gets from the store:
\*   ok         status 200
\*   non200     a 5xx status, the body a JSON object (what store_data sends
\*              when it fails)
\*   rejected   a 4xx status, the body a JSON object: the store refuses the
\*              payload itself
\*   nonobject  another status, the body JSON but no object (null, a list, a
\*              string): response.json().get raises AttributeError
\*   neterr     requests.exceptions.ConnectionError
\*   timeout    requests.exceptions.Timeout after the 5 s of the call
\* A non-200 answer whose body is no JSON at all makes response.json() raise
\* JSONDecodeError, which is a RequestException from requests 2.27 on (the
\* code then goes the way of neterr) and a plain ValueError before (the way
\* of nonobject).  The mounted Retry adapter does not repeat a POST on a
\* status of its forcelist, and what it repeats on a refused connection
\* happens inside the one session.post.
Answers == {"ok", "non200", "rejected", "nonobject", "neterr", "timeout"}

StorePlans == [1..max_retries -> Answers]

NoPlan == <<>>

RECURSIVE Pow2(_)
Pow2(n) == IF n = 0 THEN 1 ELSE 2 * Pow2(n - 1)

\* retry_delay * (2 ** attempt)
BackoffDelay(a) == retry_delay * Pow2(a)

\* a plausible slip: "attempt < max_retries"
MayRetryOnceMore(a) == a < max_retries

\* "if attempt < max_retries - 1": another attempt follows this one
MayRetry(a) == a < max_retries - 1

Raw(city, ts, voltage, current, power, enrichment) ==
    [ city |-> city, timestamp |-> ts, voltage |-> voltage, current |-> current,
      power_consumption |-> power, enrichment |-> enrichment ]

NoReading == Raw(NoCity, Timestamp("missing", 0), Missing, Missing, Missing, FALSE)

NotCleaned == CleanFailure("")

NoPayload ==
    [ built |-> FALSE, city |-> "", voltage |-> 0, current |-> 0,
      power_consumption |-> 0, status |-> "", flagged |-> FALSE,
      anomaly |-> FALSE, enrichment |-> FALSE ]

\* required_fields: the outbound payload
Payload(p) ==
    [ built |-> TRUE, city |-> p.city, voltage |-> p.voltage, current |-> p.current,
      power_consumption |-> p.power_consumption, status |-> p.status,
      flagged |-> p.flagged, anomaly |-> p.anomaly, enrichment |-> TRUE ]

NoResult == [status |-> "", code |-> 0, message |-> ""]

Success == [status |-> "success", code |-> 200, message |-> "Data processed and forwarded"]

Failure(msg) == [status |-> "error", code |-> 500, message |-> msg]

\* the view function returns None: Flask answers 500 with a page of its own
ReturnsNone == [status |-> "none", code |-> 500, message |-> ""]

\* a plausible slip: the outer except clause answers with the text of the
\* network branch
AbortAsNetworkError(e) ==
    /\ result' = Failure("Network error after multiple retries")
    /\ pc' = "done"

\* the request ends in the outer except clause with exception e
Abort(e) ==
    /\ result' = Failure(e)
    /\ pc' = "done"

\* receive_data from request.json to the first session.post: clean_data,
\* detect_anomalies, the payload
ReceiveData(r, plan, roundsUp) ==
    /\ pc = "idle"
    /\ UNCHANGED <<producerVars, threadVars, centralVars, simulatorVars>>
    /\ reading' = r
    /\ store' = plan
    /\ nreq' = nreq + 1
    /\ attempt' = 0
    /\ UNCHANGED <<responses, sleeps>>
    /\ IF r.city = NoCity
       THEN /\ Abort("city")
            /\ UNCHANGED <<cleaned, required_fields, detectorVars>>
       ELSE LET c == CleanData(r)
            IN  IF ~c.ok
                THEN /\ Abort(c.error)
                     /\ cleaned' = c
                     /\ UNCHANGED <<required_fields, detectorVars>>
                ELSE /\ Detect(r.city, c.power_consumption, roundsUp, WINDOW_SIZE)
                     /\ ncalls' = ncalls + 1
                     /\ cleaned' = [c EXCEPT !.anomaly = last'.anomaly]
                     /\ IF ~r.enrichment
                        THEN /\ Abort("temperature")
                             /\ UNCHANGED required_fields
                        ELSE /\ required_fields' = Payload(cleaned')
                             /\ pc' = "post"
                             /\ UNCHANGED result

Retry == [pc |-> "sleep", result |-> NoResult]

Done(r) == [pc |-> "done", result |-> r]

\* a plausible slip: no return in the branch of status 200, the loop goes on
HandleAnswerNoReturn(answer, a) ==
    CASE answer \in {"ok", "non200", "rejected"} ->
           IF MayRetry(a) THEN Retry
           ELSE Done(Failure("Failed to forward data after 3 attempts"))
      [] answer = "nonobject" -> Done(Failure("AttributeError"))
      [] answer \in {"neterr", "timeout"} ->
           IF MayRetry(a) THEN Retry
           ELSE Done(Failure("Network error after multiple retries"))

\* the body of the loop after session.post: where the handler goes next and
\* what it returns
HandleAnswer(answer, a) ==
    CASE answer = "ok" -> Done(Success)
      [] answer \in {"non200", "rejected"} ->
           IF MayRetry(a) THEN Retry
           ELSE Done(Failure("Failed to forward data after 3 attempts"))
      [] answer = "nonobject" -> Done(Failure("AttributeError"))
      [] answer \in {"neterr", "timeout"} ->
           IF MayRetry(a) THEN Retry
           ELSE Done(Failure("Network error after multiple retries"))

(***************************************************************************)
(* store_data (src/Central Server/central_server.py): the row the store    *)
(* inserts for the object posted to it                                     *)
(***************************************************************************)
\* data.get(key, default)
Get(data, key, default) == IF key \in DOMAIN data THEN data[key] ELSE default

\* a plausible slip: the flag is read under the key the edge server uses
StoreDataReadsAnomaly(data) ==
    [ city |-> data.city,
      power_consumption |-> data.power_consumption,
      is_anomaly |-> IF Get(data, "anomaly", FALSE) THEN 1 ELSE 0 ]

\* the columns city, power_consumption and is_anomaly of the inserted row
StoreData(data) ==
    [ city |-> data.city,
      power_consumption |-> data.power_consumption,
      is_anomaly |-> IF Get(data, "is_anomaly", FALSE) THEN 1 ELSE 0 ]

\* whether the row has been committed when session.post comes to this
\* answer: it has on 200, it has not when store_data or the server before it
\* answers with an error, and the timeout of 5 s can pass before or after
\* conn.commit()
Committed(answer) ==
    CASE answer = "ok" -> {TRUE}
      [] answer = "timeout" -> BOOLEAN
      [] OTHER -> {FALSE}

InitCentral == stored = {}

\* one session.post and what the code does with its answer
Post ==
    /\ pc = "post"
    /\ UNCHANGED <<producerVars, threadVars, simulatorVars>>
    /\ LET answer == store[attempt + 1]
           next   == HandleAnswer(answer, attempt)
       IN  /\ responses' = Append(responses, answer)
           /\ pc' = next.pc
           /\ result' = next.result
           /\ \E committed \in Committed(answer) :
                  stored' = IF committed
                            THEN stored \cup {StoreData(required_fields)}
                            ELSE stored
    /\ UNCHANGED <<reading, cleaned, required_fields, store, attempt, sleeps, nreq,
                   detectorVars>>

\* time.sleep, then the next iteration of the loop; a loop that ends without
\* a return makes receive_data return None
Backoff ==
    /\ pc = "sleep"
    /\ UNCHANGED <<producerVars, threadVars, centralVars, simulatorVars>>
    /\ sleeps' = Append(sleeps, BackoffDelay(attempt))
    /\ attempt' = attempt + 1
    /\ IF attempt + 1 < max_retries
       THEN pc' = "post" /\ UNCHANGED result
       ELSE pc' = "done" /\ result' = ReturnsNone
    /\ UNCHANGED <<reading, cleaned, required_fields, store, responses, nreq,
                   detectorVars>>

\* a plausible slip: a request that ends in an error takes its reading out
\* of the list of its city again
ReturnRollsBack ==
    /\ pc = "done"
    /\ UNCHANGED <<producerVars, threadVars, simulatorVars>>
    /\ pc' = "idle"
    /\ reading' = NoReading
    /\ cleaned' = NotCleaned
    /\ required_fields' = NoPayload
    /\ store' = NoPlan
    /\ attempt' = 0
    /\ responses' = <<>>
    /\ sleeps' = <<>>
    /\ result' = NoResult
    /\ stored' = {}
    /\ readings_buffer' =
           IF cleaned.ok /\ result.status # "success"
           THEN [readings_buffer EXCEPT ![reading.city] = SubSeq(@, 1, Len(@) - 1)]
           ELSE readings_buffer
    /\ UNCHANGED <<nreq, last, ncalls, fed, verdicts>>

\* the response is sent; the handler's locals are gone
Return ==
    /\ pc = "done"
    /\ UNCHANGED <<producerVars, threadVars, simulatorVars>>
    /\ pc' = "idle"
    /\ reading' = NoReading
    /\ cleaned' = NotCleaned
    /\ required_fields' = NoPayload
    /\ store' = NoPlan
    /\ attempt' = 0
    /\ responses' = <<>>
    /\ sleeps' = <<>>
    /\ result' = NoResult
    /\ stored' = {}
    /\ UNCHANGED <<nreq, detectorVars>>

(***************************************************************************)
(* simulate_city_data (src/IOT Simulator/smart_meter.py): the loop of the  *)
(* producer                                                                *)
(***************************************************************************)
max_consecutive_failures == 5

\* what session.get(.../health) comes to: a status, or an exception (a
\* refused connection, a timeout, the retries of the adapter used up)
HealthAnswers == {"200", "non200", "exception"}

\* what session.post(.../receive_data) comes to
PostAnswers == {"200", "non200", "neterr", "error"}

\* time.sleep(random.uniform(1, 5)): the two ends of the interval
PauseDelays == {1, 5}

\* a plausible slip: any answer of the server counts as healthy
CheckEdgeServerAnyStatus(health) == health # "exception"

\* check_edge_server: status 200, and False on any exception
CheckEdgeServer(health) == health = "200"

\* a plausible slip: the failed probe is logged and waited for, without the
\* continue
AfterProbeNoContinue(healthy) == "generate"

\* where the loop goes after the probe: on to the reading, or to
\* time.sleep(5) and continue
AfterProbe(healthy) == IF healthy THEN "generate" ELSE "wait"

\* a plausible slip: "if consecutive_failures > max_consecutive_failures"
TooManyFailuresLate(n) == n > max_consecutive_failures

\* "if consecutive_failures >= max_consecutive_failures"
TooManyFailures(n) == n >= max_consecutive_failures

\* a plausible slip: a break after the long wait, the producer gives the
\* city up
AfterPauseGivesUp(long) == IF long THEN "main" ELSE "probe"

\* where the loop goes after the sleep that ends an iteration: "while True"
\* has no exit
AfterPause(long) == "probe"

\* cities of __main__
MeterCities == <<"Mumbai", "Delhi", "Bengaluru", "Hyderabad", "Chennai">>

\* __main__ before its loop over the cities
InitProducer ==
    /\ mpc = "main"
    /\ consecutive_failures = 0
    /\ probe = "none"
    /\ posted = 0
    /\ slept = 0
    /\ iterations = 0
    /\ sent = "none"
    /\ meter_city = 0
    /\ posted_for = {}

\* for city in cities: simulate_city_data(city, edge_server_url), up to the
\* loop of the function
CallSimulate ==
    /\ mpc = "main"
    /\ UNCHANGED <<detectorVars, requestVars, threadVars, centralVars, simulatorVars>>
    /\ meter_city < Len(MeterCities)
    /\ meter_city' = meter_city + 1
    /\ consecutive_failures' = 0
    /\ mpc' = "probe"
    /\ UNCHANGED <<probe, posted, slept, iterations, sent, posted_for>>

\* while True: ... if not check_edge_server(edge_server_url)
Probe ==
    /\ mpc = "probe"
    /\ UNCHANGED <<detectorVars, requestVars, threadVars, centralVars, simulatorVars>>
    /\ iterations < MaxIterations
    /\ iterations' = iterations + 1
    /\ \E health \in HealthAnswers :
           /\ probe' = health
           /\ mpc' = AfterProbe(CheckEdgeServer(health))
    /\ UNCHANGED <<consecutive_failures, posted, slept, sent, meter_city, posted_for>>

\* time.sleep(5); continue
WaitForServer ==
    /\ mpc = "wait"
    /\ UNCHANGED <<detectorVars, requestVars, threadVars, centralVars, simulatorVars>>
    /\ slept' = 5
    /\ mpc' = "probe"
    /\ UNCHANGED <<consecutive_failures, probe, posted, iterations, sent, meter_city,
                   posted_for>>

\* reading = meter.generate_reading(); if not reading: continue
Generate ==
    /\ mpc = "generate"
    /\ UNCHANGED <<detectorVars, requestVars, threadVars, centralVars, simulatorVars>>
    /\ \E generated \in BOOLEAN : mpc' = IF generated THEN "send" ELSE "probe"
    /\ UNCHANGED <<consecutive_failures, probe, posted, slept, iterations, sent,
                   meter_city, posted_for>>

\* session.post to /receive_data, and the count of failures after it
Send ==
    /\ mpc = "send"
    /\ UNCHANGED <<detectorVars, requestVars, threadVars, centralVars, simulatorVars>>
    /\ posted' = posted + 1
    /\ posted_for' = posted_for \cup {MeterCities[meter_city]}
    /\ \E answer \in PostAnswers :
           /\ sent' = answer
           /\ consecutive_failures' =
                  IF answer = "200" THEN 0 ELSE consecutive_failures + 1
    /\ mpc' = "pause"
    /\ UNCHANGED <<probe, slept, iterations, meter_city>>

\* the sleep that ends the iteration: 30 s and a reset after too many
\* failures, 1 to 5 s otherwise
Pause ==
    /\ mpc = "pause"
    /\ UNCHANGED <<detectorVars, requestVars, threadVars, centralVars, simulatorVars>>
    /\ IF TooManyFailures(consecutive_failures)
       THEN slept' = 30 /\ consecutive_failures' = 0
       ELSE slept' \in PauseDelays /\ UNCHANGED consecutive_failures
    /\ mpc' = AfterPause(TooManyFailures(consecutive_failures))
    /\ UNCHANGED <<probe, posted, iterations, sent, meter_city, posted_for>>

(***************************************************************************)
(* receive_data under app.run: the development server of Flask takes each  *)
(* request in a thread of its own, and the threads share preprocessor.     *)
(* A thread runs one statement of detect_anomalies at a time; what another *)
(* thread does between two statements is what a switch of the interpreter  *)
(* between them lets it do.  Nothing in the code takes a lock.             *)
(***************************************************************************)
Threads == {1, 2}

IdleThread ==
    [ pc |-> "idle", city |-> "", power |-> 0, plan |-> NoPlan, attempt |-> 0,
      posts |-> 0, anomaly |-> FALSE, overtakes |-> FALSE, result |-> NoResult ]

InitThreads ==
    /\ threads = [t \in Threads |-> IdleThread]
    /\ arrived = 0

(***************************************************************************)
(* DataSimulator (src/Edge Server/edge_server.py): start(), stop() and the *)
(* thread of simulate_and_send, under the threaded server: the requests    *)
(* to /start_simulation and /stop_simulation run in threads of their own,  *)
(* one statement at a time, and nothing in the code takes a lock.          *)
(***************************************************************************)
MaxSimThreads == 2

MaxSimRequests == 3

\* the Thread objects start() can make, numbered in the order of creation
SimThreads == 1..MaxSimThreads

\* the server threads that take the start and stop requests
Handlers == {1, 2}

IdleHandler == [op |-> "", pc |-> "idle", target |-> 0]

\* simulator = DataSimulator(): running = False, thread = None
InitSimulator ==
    /\ running = FALSE
    /\ thread = 0
    /\ sims = [i \in SimThreads |-> "none"]
    /\ handlers = [h \in Handlers |-> IdleHandler]
    /\ simreqs = 0

\* the thread has been started and simulate_and_send has not returned
Alive(i) == sims[i] \in {"check", "send"}

At(h, label) == handlers[h].pc = label

Jump(h, label) == handlers' = [handlers EXCEPT ![h].pc = label]

\* the response is sent and the server thread ends
Answered(h) == handlers' = [handlers EXCEPT ![h] = IdleHandler]

\* a request to /start_simulation or /stop_simulation is taken by a thread
\* of the server
SimRequest(h) ==
    /\ At(h, "idle")
    /\ simreqs < MaxSimRequests
    /\ simreqs' = simreqs + 1
    /\ \E op \in {"start", "stop"} :
           handlers' = [handlers EXCEPT ![h] =
               [op |-> op, pc |-> IF op = "start" THEN "test" ELSE "clear", target |-> 0]]
    /\ UNCHANGED <<running, thread, sims>>
    /\ UNCHANGED <<detectorVars, requestVars, producerVars, threadVars, centralVars>>

\* start(): if not self.running
StartTest(h) ==
    /\ At(h, "test")
    /\ IF running THEN Answered(h) ELSE Jump(h, "set")
    /\ UNCHANGED <<running, thread, sims, simreqs>>
    /\ UNCHANGED <<detectorVars, requestVars, producerVars, threadVars, centralVars>>

\* self.running = True
StartSet(h) ==
    /\ At(h, "set")
    /\ running' = TRUE
    /\ Jump(h, "create")
    /\ UNCHANGED <<thread, sims, simreqs>>
    /\ UNCHANGED <<detectorVars, requestVars, producerVars, threadVars, centralVars>>

\* self.thread = threading.Thread(target=self.simulate_and_send)
StartCreate(h) ==
    /\ At(h, "create")
    /\ \E i \in SimThreads :
           /\ sims[i] = "none"
           /\ \A j \in 1..(i - 1) : sims[j] # "none"
           /\ thread' = i
           /\ sims' = [sims EXCEPT ![i] = "created"]
    /\ Jump(h, "run")
    /\ UNCHANGED <<running, simreqs>>
    /\ UNCHANGED <<detectorVars, requestVars, producerVars, threadVars, centralVars>>

\* self.thread.start(), on the Thread self.thread is now; a Thread that has
\* been started raises RuntimeError, which start_simulation answers with 500
StartRun(h) ==
    /\ At(h, "run")
    /\ sims' = IF sims[thread] = "created"
               THEN [sims EXCEPT ![thread] = "check"]
               ELSE sims
    /\ Answered(h)
    /\ UNCHANGED <<running, thread, simreqs>>
    /\ UNCHANGED <<detectorVars, requestVars, producerVars, threadVars, centralVars>>

\* stop(): self.running = False
StopClear(h) ==
    /\ At(h, "clear")
    /\ running' = FALSE
    /\ Jump(h, "test_thread")
    /\ UNCHANGED <<thread, sims, simreqs>>
    /\ UNCHANGED <<detectorVars, requestVars, producerVars, threadVars, centralVars>>

\* if self.thread
StopTest(h) ==
    /\ At(h, "test_thread")
    /\ IF thread = 0 THEN Answered(h) ELSE Jump(h, "join")
    /\ UNCHANGED <<running, thread, sims, simreqs>>
    /\ UNCHANGED <<detectorVars, requestVars, producerVars, threadVars, centralVars>>

\* self.thread.join() is called, on the Thread self.thread is now; a Thread
\* that has not been started raises RuntimeError, which stop_simulation
\* answers with 500
StopJoin(h) ==
    /\ At(h, "join")
    /\ IF sims[thread] = "created"
       THEN Answered(h)
       ELSE handlers' = [handlers EXCEPT ![h].pc = "joining", ![h].target = thread]
    /\ UNCHANGED <<running, thread, sims, simreqs>>
    /\ UNCHANGED <<detectorVars, requestVars, producerVars, threadVars, centralVars>>

\* join() returns once simulate_and_send has returned
StopJoined(h) ==
    /\ At(h, "joining")
    /\ sims[handlers[h].target] = "dead"
    /\ Answered(h)
    /\ UNCHANGED <<running, thread, sims, simreqs>>
    /\ UNCHANGED <<detectorVars, requestVars, producerVars, threadVars, centralVars>>

\* simulate_and_send: while self.running
SimCheck(i) ==
    /\ sims[i] = "check"
    /\ sims' = [sims EXCEPT ![i] = IF running THEN "send" ELSE "dead"]
    /\ UNCHANGED <<running, thread, handlers, simreqs>>
    /\ UNCHANGED <<detectorVars, requestVars, producerVars, threadVars, centralVars>>

\* for city in CITIES.keys(): a reading is generated and posted, and the
\* thread sleeps 2 to 4 s; self.running is not read inside this loop
SimSend(i) ==
    /\ sims[i] = "send"
    /\ sims' = [sims EXCEPT ![i] = "check"]
    /\ UNCHANGED <<running, thread, handlers, simreqs>>
    /\ UNCHANGED <<detectorVars, requestVars, producerVars, threadVars, centralVars>>

\* the bodies the requests of this specification carry: a city, and a
\* voltage that is there or missing; the power value numbers the request
ThreadRequests ==
    [city : Cities, complete : {TRUE}] \cup [city : {"Mumbai"}, complete : {FALSE}]

\* the answers of the store to the posts of one request
ThreadPlans == { <<"ok", "ok", "ok">>, <<"non200", "timeout", "neterr">> }

\* a plausible slip: app.run(..., threaded=False), one request at a time
ServerAdmitsOneAtATime(t) == \A u \in Threads \ {t} : threads[u].pc = "idle"

\* app.run(host, port): threaded by default, a request is taken whatever the
\* other threads are doing
ServerAdmits(t) == TRUE

Goto(t, label) == threads' = [threads EXCEPT ![t].pc = label]

\* request.json, clean_data, and the call of detect_anomalies
TReceive(t) ==
    /\ threads[t].pc = "idle"
    /\ arrived < MaxThreadRequests
    /\ ServerAdmits(t)
    /\ arrived' = arrived + 1
    /\ \E r \in ThreadRequests, plan \in ThreadPlans :
           LET x == 1000 + arrived + 1
               c == CleanData(Raw(r.city, Timestamp("naive", 1),
                                  IF r.complete THEN Num(230) ELSE Missing,
                                  Num(10), Num(x), TRUE))
               behind == \E u \in Threads \ {t} : threads[u].pc = "sleep"
           IN  threads' = [threads EXCEPT ![t] =
                   IF c.ok
                   THEN [ pc |-> "check", city |-> r.city, power |-> c.power_consumption,
                          plan |-> plan, attempt |-> 0, posts |-> 0, anomaly |-> FALSE,
                          overtakes |-> behind, result |-> NoResult ]
                   ELSE [ pc |-> "done", city |-> r.city, power |-> 0,
                          plan |-> plan, attempt |-> 0, posts |-> 0, anomaly |-> FALSE,
                          overtakes |-> behind, result |-> Failure(c.error) ]]
    /\ UNCHANGED <<detectorVars, requestVars, producerVars, centralVars, simulatorVars>>

\* if city not in self.readings_buffer
TCheck(t) ==
    /\ threads[t].pc = "check"
    /\ Goto(t, IF threads[t].city \in DOMAIN readings_buffer THEN "append" ELSE "create")
    /\ UNCHANGED <<arrived, detectorVars, requestVars, producerVars, centralVars, simulatorVars>>

\* self.readings_buffer[city] = []
TCreate(t) ==
    /\ threads[t].pc = "create"
    /\ readings_buffer' =
           [c \in DOMAIN readings_buffer \cup {threads[t].city} |->
               IF c = threads[t].city THEN <<>> ELSE readings_buffer[c]]
    /\ Goto(t, "append")
    /\ UNCHANGED <<arrived, last, ncalls, fed, verdicts, requestVars, producerVars,
                   centralVars, simulatorVars>>

\* self.readings_buffer[city].append(reading)
TAppend(t) ==
    /\ threads[t].pc = "append"
    /\ readings_buffer' =
           [readings_buffer EXCEPT ![threads[t].city] = Append(@, threads[t].power)]
    /\ fed' = [fed EXCEPT ![threads[t].city] = Append(@, threads[t].power)]
    /\ Goto(t, "len")
    /\ UNCHANGED <<arrived, last, ncalls, verdicts, requestVars, producerVars,
                   centralVars, simulatorVars>>

\* if len(self.readings_buffer[city]) > WINDOW_SIZE
TLen(t) ==
    /\ threads[t].pc = "len"
    /\ Goto(t, IF Len(readings_buffer[threads[t].city]) > WINDOW_SIZE
                THEN "pop" ELSE "score")
    /\ UNCHANGED <<arrived, detectorVars, requestVars, producerVars, centralVars, simulatorVars>>

\* self.readings_buffer[city].pop(0)
TPop(t) ==
    /\ threads[t].pc = "pop"
    /\ readings_buffer' = [readings_buffer EXCEPT ![threads[t].city] = Tail(@)]
    /\ Goto(t, "score")
    /\ UNCHANGED <<arrived, last, ncalls, fed, verdicts, requestVars, producerVars,
                   centralVars, simulatorVars>>

\* the scoring branch on the list as it is now, and required_fields
TScore(t) ==
    /\ threads[t].pc = "score"
    /\ LET w == readings_buffer[threads[t].city]
           x == threads[t].power
           scored == EnoughReadings(w, WINDOW_SIZE)
       IN  \E roundsUp \in IF scored /\ ZTie(w, x) THEN BOOLEAN ELSE {FALSE} :
               threads' = [threads EXCEPT
                   ![t].anomaly = IF scored THEN ZScoreExceeds(w, x, roundsUp) ELSE FALSE,
                   ![t].pc = "post"]
    /\ UNCHANGED <<arrived, detectorVars, requestVars, producerVars, centralVars, simulatorVars>>

\* one session.post and what the code does with its answer
TPost(t) ==
    /\ threads[t].pc = "post"
    /\ LET next == HandleAnswer(threads[t].plan[threads[t].attempt + 1], threads[t].attempt)
       IN  threads' = [threads EXCEPT ![t].posts = @ + 1,
                                      ![t].pc = next.pc,
                                      ![t].result = next.result]
    /\ UNCHANGED <<arrived, detectorVars, requestVars, producerVars, centralVars, simulatorVars>>

\* time.sleep ends; the next iteration of the loop
TBackoff(t) ==
    /\ threads[t].pc = "sleep"
    /\ threads' = [threads EXCEPT
           ![t].attempt = @ + 1,
           ![t].pc = IF threads[t].attempt + 1 < max_retries THEN "post" ELSE "done",
           ![t].result = IF threads[t].attempt + 1 < max_retries THEN @ ELSE ReturnsNone]
    /\ UNCHANGED <<arrived, detectorVars, requestVars, producerVars, centralVars, simulatorVars>>

\* the response is sent and the thread ends
TReturn(t) ==
    /\ threads[t].pc = "done"
    /\ threads' = [threads EXCEPT ![t] = IdleThread]
    /\ UNCHANGED <<arrived, detectorVars, requestVars, producerVars, centralVars, simulatorVars>>

\* the statements of a request under way in thread t
TStep(t) ==
    \/ TCheck(t) \/ TCreate(t) \/ TAppend(t) \/ TLen(t) \/ TPop(t)
    \/ TScore(t) \/ TPost(t) \/ TBackoff(t) \/ TReturn(t)

(***************************************************************************)
(* Spec: the edge server handling one request after another                *)
(***************************************************************************)
MaxRequests == 2

Naive == Timestamp("naive", 1)

\* requests with every required field, with and without the enrichment fields
WellFormed ==
    { Raw(city, Naive, Num(v), Num(c), Num(p), e) :
        city \in Cities, v \in {230, 250}, c \in {10, 20},
        p \in PowerValues, e \in BOOLEAN }

\* requests clean_data rejects, and one without 'city'
Malformed ==
    { Raw("Mumbai", Naive, Missing, Num(10), Num(1000), TRUE),
      Raw("Mumbai", Timestamp("junk", 0), Num(230), Num(10), Num(1000), TRUE),
      Raw(NoCity, Naive, Num(230), Num(10), Num(1000), TRUE) }

Requests == WellFormed \cup Malformed

RequestIdle ==
    /\ pc = "idle"
    /\ reading = NoReading
    /\ cleaned = NotCleaned
    /\ required_fields = NoPayload
    /\ store = NoPlan
    /\ attempt = 0
    /\ responses = <<>>
    /\ sleeps = <<>>
    /\ result = NoResult

Init ==
    /\ InitDetector
    /\ RequestIdle
    /\ nreq = 0
    /\ InitProducer
    /\ InitThreads
    /\ InitCentral
    /\ InitSimulator

Receive ==
    /\ pc = "idle"
    /\ nreq < MaxRequests
    /\ \E r \in Requests, plan \in StorePlans :
           \E roundsUp \in Roundings(readings_buffer, r.city,
                                      CleanData(r).power_consumption, WINDOW_SIZE) :
               ReceiveData(r, plan, roundsUp)

Next == Receive \/ Post \/ Backoff \/ Return

Spec == Init /\ [][Next]_vars

(***************************************************************************)
(* SpecProducer: one smart_meter.py process running simulate_city_data     *)
(***************************************************************************)
NextProducer == CallSimulate \/ Probe \/ WaitForServer \/ Generate \/ Send \/ Pause

SpecProducer == Init /\ [][NextProducer]_vars

(***************************************************************************)
(* SpecThreads: the threaded server taking requests while others are under *)
(* way.  It starts from a fresh preprocessor, or from one that has taken   *)
(* WINDOW_SIZE - 1 readings of Mumbai one after another.                   *)
(***************************************************************************)
WarmWindow == [i \in 1..(WINDOW_SIZE - 1) |-> 1000]

InitWarm ==
    /\ readings_buffer = [c \in {"Mumbai"} |-> WarmWindow]
    /\ last = [ called |-> TRUE, city |-> "Mumbai", power |-> 1000,
                before |-> SubSeq(WarmWindow, 1, WINDOW_SIZE - 2),
                scored |-> FALSE, zerodiv |-> FALSE, anomaly |-> FALSE ]
    /\ ncalls = WINDOW_SIZE - 1
    /\ fed = [c \in Cities |-> IF c = "Mumbai" THEN WarmWindow ELSE <<>>]
    /\ verdicts = [c \in Cities |->
                     IF c = "Mumbai" THEN [i \in 1..(WINDOW_SIZE - 1) |-> FALSE] ELSE <<>>]

InitConcurrent ==
    /\ InitDetector \/ InitWarm
    /\ RequestIdle
    /\ nreq = 0
    /\ InitProducer
    /\ InitThreads
    /\ InitCentral
    /\ InitSimulator

NextThreads == \E t \in Threads : TReceive(t) \/ TStep(t)

SpecThreads == InitConcurrent /\ [][NextThreads]_vars

(***************************************************************************)
(* SpecSimulator: start and stop requests of the simulation, and the       *)
(* threads start() makes                                                   *)
(***************************************************************************)
NextSimulator ==
    \/ \E h \in Handlers :
           \/ SimRequest(h)
           \/ StartTest(h) \/ StartSet(h) \/ StartCreate(h) \/ StartRun(h)
           \/ StopClear(h) \/ StopTest(h) \/ StopJoin(h) \/ StopJoined(h)
    \/ \E i \in SimThreads : SimCheck(i) \/ SimSend(i)

SpecSimulator == Init /\ [][NextSimulator]_vars

(***************************************************************************)
(* SpecWarm: the edge server handling one request after another, from a    *)
(* preprocessor that has taken WINDOW_SIZE - 1 readings of Mumbai: the     *)
(* readings of these requests are scored                                   *)
(***************************************************************************)
InitWarmServer ==
    /\ InitWarm
    /\ RequestIdle
    /\ nreq = 0
    /\ InitProducer
    /\ InitThreads
    /\ InitCentral
    /\ InitSimulator

\* requests of Mumbai with every required field, with and without the
\* enrichment fields
WarmRequests ==
    { Raw("Mumbai", Naive, Num(230), Num(10), Num(p), e) :
        p \in PowerValues, e \in BOOLEAN }

ReceiveWarm ==
    /\ pc = "idle"
    /\ nreq < MaxRequests
    /\ \E r \in WarmRequests, plan \in StorePlans :
           \E roundsUp \in Roundings(readings_buffer, r.city,
                                      CleanData(r).power_consumption, WINDOW_SIZE) :
               ReceiveData(r, plan, roundsUp)

NextWarm == ReceiveWarm \/ Post \/ Backoff \/ Return

SpecWarm == InitWarmServer /\ [][NextWarm]_vars

(***************************************************************************)
(* SpecDetector: any sequence of detect_anomalies calls on one             *)
(* DataPreprocessor, with the shipped WINDOW_SIZE                          *)
(***************************************************************************)
DetectStep ==
    /\ ncalls < MaxCalls
    /\ UNCHANGED <<requestVars, producerVars, threadVars, centralVars, simulatorVars>>
    /\ \E city \in Cities, x \in PowerValues :
           \E roundsUp \in Roundings(readings_buffer, city, x, WINDOW_SIZE) :
               Detect(city, x, roundsUp, WINDOW_SIZE)
    /\ ncalls' = ncalls + 1

NextDetector == DetectStep

SpecDetector == Init /\ [][NextDetector]_vars

(***************************************************************************)
(* SpecScenario: the same calls under the configuration of the spec's      *)
(* scenario (window size 3, threshold 3.0, power values 1000 and 5000)     *)
(***************************************************************************)
ScenarioWindowSize == 3

ScenarioMaxCalls == 4

ScenarioValues == {1000, 5000}

ScenarioStep ==
    /\ ncalls < ScenarioMaxCalls
    /\ UNCHANGED <<requestVars, producerVars, threadVars, centralVars, simulatorVars>>
    /\ \E city \in Cities, x \in ScenarioValues :
           \E roundsUp \in Roundings(readings_buffer, city, x, ScenarioWindowSize) :
               Detect(city, x, roundsUp, ScenarioWindowSize)
    /\ ncalls' = ncalls + 1

NextScenario == ScenarioStep

SpecScenario == Init /\ [][NextScenario]_vars

(***************************************************************************)
(* SpecScore: detect_anomalies called for one city, first with a run of    *)
(* equal power values, then with any of three values, up to the call that  *)
(* fills the window                                                        *)
(***************************************************************************)
ScoreMaxCalls == 10

ScoreWarmup == 4

ScoreValues == {1000, 1003, 1006}

ScoreStep ==
    /\ ncalls < ScoreMaxCalls
    /\ UNCHANGED <<requestVars, producerVars, threadVars, centralVars, simulatorVars>>
    /\ \E x \in IF ncalls < ScoreWarmup THEN {1000} ELSE ScoreValues :
           \E roundsUp \in Roundings(readings_buffer, "Mumbai", x, WINDOW_SIZE) :
               Detect("Mumbai", x, roundsUp, WINDOW_SIZE)
    /\ ncalls' = ncalls + 1

NextScore == ScoreStep

SpecScore == Init /\ [][NextScore]_vars

(***************************************************************************)
(* Claims about detect_anomalies                                           *)
(***************************************************************************)
AllEqual(w) == \A i \in 1..Len(w) : w[i] = w[1]

\* the window of the last call's city, after the call
LastWindow == readings_buffer[last.city]

\* C1: after every detect_anomalies call each city's list holds at most
\* WINDOW_SIZE entries; the call appends the new value, and when that makes
\* the list longer than WINDOW_SIZE it removes the oldest entry and no other.
C1_WindowBounded ==
    /\ \A c \in DOMAIN readings_buffer : Len(readings_buffer[c]) <= WINDOW_SIZE
    /\ last.called =>
         IF Len(last.before) + 1 > WINDOW_SIZE
         THEN LastWindow = Append(Tail(last.before), last.power)
         ELSE LastWindow = Append(last.before, last.power)

\* C1 witness: a call on a full window whose oldest entry differs from its
\* newest one, so that removing the oldest is told from removing another.
C1_Witness ==
    /\ last.called
    /\ Len(last.before) = WINDOW_SIZE
    /\ last.before[1] # last.before[2]
    /\ last.before[1] # last.power

\* C3 as stated: a reading of a city with fewer than WINDOW_SIZE readings
\* processed before it gets anomaly = false.
C3_Original ==
    last.called /\ Len(fed[last.city]) - 1 < WINDOW_SIZE => ~last.anomaly

\* C3 amended: a reading of a city with fewer than WINDOW_SIZE - 1 readings
\* processed before it (the list holds fewer than WINDOW_SIZE entries once
\* the reading is appended) is not scored and gets anomaly = false.
C3_ColdStart ==
    last.called /\ Len(fed[last.city]) - 1 < WINDOW_SIZE - 1
        => ~last.scored /\ ~last.anomaly

\* C3 witness: the (WINDOW_SIZE - 1)-th reading of a city, after equal
\* readings of another value, returned with anomaly = false.
C3_Witness ==
    /\ last.called
    /\ Len(fed[last.city]) = WINDOW_SIZE - 1
    /\ AllEqual(last.before)
    /\ last.before[1] # last.power
    /\ ~last.anomaly

\* C4: when the list of a city, once the new reading is appended, holds
\* WINDOW_SIZE equal power values, the call returns anomaly = false and no
\* division by a zero standard deviation is executed.
C4_FlatWindow ==
    last.called /\ Len(LastWindow) = WINDOW_SIZE /\ AllEqual(LastWindow)
        => ~last.anomaly /\ ~last.zerodiv

\* C4 witness: a scored call whose window holds WINDOW_SIZE equal values.
C4_Witness ==
    /\ last.called
    /\ last.scored
    /\ Len(LastWindow) = WINDOW_SIZE
    /\ AllEqual(LastWindow)

\* C5: with window size 3 and threshold 3, a city fed 1000, 1000, 1000 and
\* then 5000 gets anomaly = false three times and then anomaly = true.
C5_Scenario ==
    \A c \in Cities :
        fed[c] = <<1000, 1000, 1000, 5000>> => verdicts[c] = <<FALSE, FALSE, FALSE, TRUE>>

(***************************************************************************)
(* SpecClean: clean_data called on one request body                        *)
(***************************************************************************)
RawReadings ==
    { Raw(city, ts, v, c, p, TRUE) :
        city \in {"Mumbai", NoCity},
        ts \in {Naive, Timestamp("Z", 1), Timestamp("junk", 0)},
        v \in {Num(219), Num(220), Num(230), Num(240), Num(241),
               Str(<<2, 4, 0>>), Str(<<2, 4, 1>>), Junk, Missing},
        c \in {Num(4), Num(5), Num(15), Num(16), Str(<<1, 6>>), Junk},
        p \in {Num(1000), Missing} }

InitClean ==
    /\ InitDetector
    /\ pc = "clean"
    /\ reading \in RawReadings
    /\ cleaned = NotCleaned
    /\ required_fields = NoPayload
    /\ store = NoPlan
    /\ attempt = 0
    /\ responses = <<>>
    /\ sleeps = <<>>
    /\ result = NoResult
    /\ nreq = 0
    /\ InitProducer
    /\ InitThreads
    /\ InitCentral
    /\ InitSimulator

CleanStep ==
    /\ pc = "clean"
    /\ UNCHANGED <<producerVars, threadVars, centralVars, simulatorVars>>
    /\ cleaned' = CleanData(reading)
    /\ pc' = "cleaned"
    /\ UNCHANGED <<reading, required_fields, store, attempt, responses, sleeps,
                   result, nreq, detectorVars>>

NextClean == CleanStep

SpecClean == InitClean /\ [][NextClean]_vars

(***************************************************************************)
(* Claims about clean_data                                                 *)
(***************************************************************************)
\* the number a field of the request stands for
ValueOf(f) == IF f.kind = "str" THEN DigitsValue(f.digits) ELSE f.num

\* C2: when clean_data returns, status is 'valid' if 220 <= voltage <= 240
\* and 5 <= current <= 15, 'invalid' otherwise, and flagged is true exactly
\* when status is 'invalid'.
C2_RangeCheck ==
    pc = "cleaned" /\ cleaned.ok =>
        LET v == ValueOf(reading.voltage)
            c == ValueOf(reading.current)
        IN  /\ cleaned.status \in {"valid", "invalid"}
            /\ cleaned.status = "valid" <=> (220 <= v /\ v <= 240 /\ 5 <= c /\ c <= 15)
            /\ cleaned.flagged <=> cleaned.status = "invalid"

\* C2 witness: a reading on the edge of both intervals, the voltage given as a
\* string, comes back valid.
C2_Witness ==
    /\ pc = "cleaned"
    /\ cleaned.ok
    /\ reading.voltage = Str(<<2, 4, 0>>)
    /\ reading.current = Num(5)
    /\ cleaned.status = "valid"
    /\ ~cleaned.flagged

(***************************************************************************)
(* Claims about receive_data                                               *)
(***************************************************************************)
Failed == {"non200", "rejected", "nonobject", "neterr", "timeout"}

OutOfBounds(r) ==
    \/ ValueOf(r.voltage) < 220 \/ ValueOf(r.voltage) > 240
    \/ ValueOf(r.current) < 5 \/ ValueOf(r.current) > 15

\* C6: a request with every required field whose voltage or current is out
\* of bounds ends with status 'invalid' and flagged, its power value appended
\* to its city's list by detect_anomalies, and at least one post to the store
\* whose payload carries flagged = true.
C6_InvalidForwarded ==
    pc = "done" /\ reading.city # NoCity /\ CleanData(reading).ok /\ OutOfBounds(reading) =>
        /\ cleaned.status = "invalid"
        /\ cleaned.flagged
        /\ last.called /\ last.city = reading.city
        /\ LastWindow[Len(LastWindow)] = ValueOf(reading.power_consumption)
        /\ Len(responses) >= 1
        /\ required_fields.built /\ required_fields.flagged

\* C6 with the enrichment fields present: the reading is marked, appended
\* and posted with flagged = true.
C6_WithEnrichment ==
    pc = "done" /\ reading.city # NoCity /\ CleanData(reading).ok /\ OutOfBounds(reading)
      /\ reading.enrichment =>
        /\ cleaned.status = "invalid"
        /\ cleaned.flagged
        /\ last.called /\ last.city = reading.city
        /\ LastWindow[Len(LastWindow)] = ValueOf(reading.power_consumption)
        /\ Len(responses) >= 1
        /\ required_fields.built /\ required_fields.flagged

\* C7: a request that got past clean_data and detect_anomalies ends with one
\* outcome, success or error, success exactly when the last post was answered
\* 200, after at most max_retries posts; while it is under way fewer than
\* max_retries posts have been made and its next step can be taken.
C7_OneOutcome ==
    /\ Len(responses) <= 3
    /\ Len(sleeps) < 3
    /\ pc = "post" => Len(responses) = attempt /\ attempt < 3 /\ ENABLED Post
    /\ pc = "sleep" => Len(responses) = attempt + 1 /\ attempt + 1 < 3 /\ ENABLED Backoff
    /\ pc = "done" /\ cleaned.ok =>
         /\ result.status \in {"success", "error"}
         /\ result.status = "success" <=>
                (responses # <<>> /\ responses[Len(responses)] = "ok")
         /\ result.status = "success" => result.code = 200
         /\ result.status = "error" => result.code = 500

\* C7 witness: three posts, answered by a non-200 status, a timeout and a
\* connection error, and the request ends with an error.
C7_Witness ==
    /\ pc = "done"
    /\ responses = <<"non200", "timeout", "neterr">>
    /\ result.status = "error"

\* C8: when the store fails the first max_retries - 1 posts, by a non-200
\* status or a network error, and accepts the last, the request ends with
\* success after exactly max_retries posts.
C8_LastAttemptSucceeds ==
    pc = "done" /\ required_fields.built
      /\ store[1] \in Failed /\ store[2] \in Failed /\ store[3] = "ok" =>
        /\ result = Success
        /\ Len(responses) = 3

\* C9: when every post fails, the request ends with an error after exactly
\* max_retries posts, having slept 1 s and then 2 s and not after the last.
C9_AllAttemptsFail ==
    pc = "done" /\ required_fields.built
      /\ (\A i \in 1..Len(responses) : responses[i] \in Failed) =>
        /\ result.status = "error"
        /\ Len(responses) = 3
        /\ sleeps = <<1, 2>>

\* the failures whose answer the loop handles as the code intends
Handled == {"non200", "rejected", "neterr", "timeout"}

\* C8 and C9 for a store whose non-200 answers carry a JSON object: two
\* failures and a 200 end in success after 3 posts; three failures end in an
\* error after 3 posts and sleeps of 1 s and 2 s.
C8C9_ObjectBodies ==
    pc = "done" /\ required_fields.built
      /\ store[1] \in Handled /\ store[2] \in Handled =>
        /\ Len(responses) = 3
        /\ sleeps = <<1, 2>>
        /\ store[3] = "ok" => result = Success
        /\ store[3] \in Handled => result.status = "error"

\* C10: within one request no post follows a post answered 200: a 200 is the
\* last answer of the request, which is then over with success.
C10_StopsAtSuccess ==
    \A i \in 1..Len(responses) :
        responses[i] = "ok" => i = Len(responses) /\ pc = "done" /\ result = Success

\* C10 witness: the second post is answered 200 and the request is over,
\* though the store would have answered 200 to a third post as well.
C10_Witness ==
    /\ pc = "done"
    /\ responses = <<"timeout", "ok">>
    /\ store[3] = "ok"
    /\ result = Success

\* C11: a post answered by a rejection of the payload (a 4xx status) is the
\* last post of the request: the request is over with an error right after
\* it, with no sleep after it and no further post.
C11_RejectionShortCircuits ==
    \A i \in 1..Len(responses) :
        responses[i] = "rejected" =>
            /\ i = Len(responses)
            /\ Len(sleeps) = i - 1
            /\ pc = "done"
            /\ result.status = "error"

\* clean_data is reached and raises: a required field is missing or is not
\* converted
CleanDataRejects(r) ==
    /\ r.city # NoCity
    /\ \/ ~ParseFloat("voltage", r.voltage).ok
       \/ ~ParseFloat("current", r.current).ok
       \/ ~ParseFloat("power_consumption", r.power_consumption).ok
       \/ ~ParseTimestamp(r.timestamp).ok

\* C12: a request whose reading clean_data rejects ends with an error, with
\* no payload built and no post to the store, and the step that receives it
\* leaves every city's list, and the record of detect_anomalies calls, as
\* they were.
C12_RejectedStopsEarly ==
    /\ [](pc # "idle" /\ CleanDataRejects(reading) =>
            /\ pc = "done"
            /\ result.status = "error" /\ result.code = 500
            /\ responses = <<>>
            /\ ~required_fields.built)
    /\ [][pc' # "idle" /\ CleanDataRejects(reading') =>
            /\ readings_buffer' = readings_buffer
            /\ ncalls' = ncalls /\ last' = last]_vars

\* C12 witness: after an accepted reading of Mumbai, a reading of Mumbai
\* without voltage has been answered with an error; Mumbai's list holds the
\* one accepted value.
C12_Witness ==
    /\ pc = "done"
    /\ CleanDataRejects(reading)
    /\ reading.voltage = Missing
    /\ result = Failure("voltage")
    /\ "Mumbai" \in DOMAIN readings_buffer
    /\ Len(readings_buffer["Mumbai"]) = 1

\* the request body lacks a required field or holds one that is not converted
MalformedReading(r) == r.city = NoCity \/ CleanDataRejects(r)

\* the retry budget is used up: max_retries posts, the last one answered by a
\* non-200 status or ended by a network error
BudgetExhausted ==
    /\ Len(responses) = max_retries
    /\ responses[max_retries] \in Handled

\* what a caller can test on the answer to recognise a delivery failure
ReadsAsDeliveryFailure(res) ==
    /\ res.status = "error"
    /\ res.message \in {"Failed to forward data after 3 attempts",
                        "Network error after multiple retries"}

\* C13: the answer to a malformed reading differs from every answer to a
\* request whose retry budget was used up: the latter carry one of the two
\* delivery-failure messages, the former never does.
C13_MalformedToldApart ==
    /\ pc = "done" /\ MalformedReading(reading) =>
          result.status = "error" /\ ~ReadsAsDeliveryFailure(result)
    /\ pc = "done" /\ BudgetExhausted => ReadsAsDeliveryFailure(result)

\* C13 witness: the second request, with a timestamp that is no ISO string,
\* has been answered with the error of the conversion.
C13_Witness ==
    /\ pc = "done"
    /\ nreq = 2
    /\ reading.timestamp = Timestamp("junk", 0)
    /\ result = Failure("ValueError")

\* C14: a request with every required field and none of the enrichment
\* fields is not rejected: a payload is built for it and at least one post
\* to the store is made before the request is over.
C14_OptionalFieldsDefaulted ==
    pc = "done" /\ ~MalformedReading(reading) /\ ~reading.enrichment =>
        /\ required_fields.built
        /\ Len(responses) >= 1
        /\ result # Failure("temperature")

(***************************************************************************)
(* More claims about detect_anomalies                                      *)
(***************************************************************************)
\* the last n entries of s, in order; all of s when it has at most n
LastN(s, n) == IF Len(s) <= n THEN s ELSE SubSeq(s, Len(s) - n + 1, Len(s))

\* C18: after k calls for a city its list holds the last min(k, WINDOW_SIZE)
\* power values passed for it, in the order of the calls; a city with no
\* call has no list.
C18_LastReadingsInOrder ==
    \A c \in Cities :
        /\ c \in DOMAIN readings_buffer <=> fed[c] # <<>>
        /\ BufferOf(readings_buffer, c) = LastN(fed[c], WINDOW_SIZE)

\* C18 witness: a city has had WINDOW_SIZE + 1 calls, the first two values
\* different, and its list is what was passed without the first value.
C18_Witness ==
    \E c \in Cities :
        /\ Len(fed[c]) = WINDOW_SIZE + 1
        /\ fed[c][1] # fed[c][2]
        /\ fed[c][1] # fed[c][WINDOW_SIZE + 1]
        /\ readings_buffer[c] = Tail(fed[c])

\* N times the value minus the sum of the window, squared: (N*x - S)^2
ClaimDev(w, x) == (Len(w) * x - SeqSum(w)) * (Len(w) * x - SeqSum(w))

\* N*Q - S^2 for sum S and sum of squares Q of the window
ClaimVar(w) == Len(w) * SeqSumSq(w) - SeqSum(w) * SeqSum(w)

\* C19 as stated: the value passed is the last entry of the list after the
\* call; when the list then holds WINDOW_SIZE entries, anomaly is true
\* exactly when (N*x - S)^2 > 9*(N*Q - S^2), which includes sigma > 0;
\* otherwise anomaly is false.
C19_Original ==
    last.called =>
        /\ LastWindow[Len(LastWindow)] = last.power
        /\ IF Len(LastWindow) = WINDOW_SIZE
           THEN last.anomaly <=>
                    ClaimDev(LastWindow, last.power) > 9 * ClaimVar(LastWindow)
           ELSE ~last.anomaly

\* C19 amended: as C19, but when (N*x - S)^2 = 9*(N*Q - S^2) with sigma > 0
\* (the exact z-score is 3) anomaly is either value; it is true when the
\* left side is greater, false when it is smaller or sigma = 0.
C19_ScoredAfterAppend ==
    last.called =>
        /\ LastWindow[Len(LastWindow)] = last.power
        /\ IF Len(LastWindow) = WINDOW_SIZE
           THEN /\ ClaimDev(LastWindow, last.power) > 9 * ClaimVar(LastWindow)
                     => last.anomaly
                /\ ClaimDev(LastWindow, last.power) < 9 * ClaimVar(LastWindow)
                     => ~last.anomaly
                /\ ClaimVar(LastWindow) = 0 => ~last.anomaly
           ELSE ~last.anomaly

\* C19 witness: the call that fills the window, eight equal values and two
\* others, the new one farthest from the mean and yet under 3 sigma.
C19_Witness ==
    /\ last.called
    /\ Len(LastWindow) = WINDOW_SIZE
    /\ last.before = <<1000, 1000, 1000, 1000, 1000, 1000, 1000, 1000, 1003>>
    /\ last.power = 1006
    /\ ClaimVar(LastWindow) > 0
    /\ ~last.anomaly

\* the window a city would have had its readings been the only ones
OwnWindow(c) == LastN(fed[c], WINDOW_SIZE)

\* C20: a call for one city leaves the list of every other city as it was;
\* the list of a city is the one its own readings alone produce, the call is
\* scored exactly when that list is full, and anomaly is what that list and
\* the new value give (either value when the exact z-score is 3); two
\* cities passed the same values have equal lists.
C20_OtherCitiesUntouched ==
    /\ [][\A c \in Cities :
             ncalls' = ncalls + 1 /\ c # last'.city =>
                 /\ BufferOf(readings_buffer', c) = BufferOf(readings_buffer, c)
                 /\ verdicts'[c] = verdicts[c]]_vars
    /\ [](last.called =>
            LET own == OwnWindow(last.city)
            IN  /\ LastWindow = own
                /\ last.scored <=> Len(own) = WINDOW_SIZE
                /\ ClaimDev(own, last.power) # 9 * ClaimVar(own) \/ ~last.scored =>
                      (last.anomaly <=>
                         last.scored /\ ClaimDev(own, last.power) > 9 * ClaimVar(own)))
    /\ [](\A c, d \in Cities :
            fed[c] = fed[d] =>
                BufferOf(readings_buffer, c) = BufferOf(readings_buffer, d))

\* C20 witness: a scored call for Mumbai on ten equal values while Delhi's
\* list holds one reading of another value.
C20_Witness ==
    /\ last.called
    /\ last.city = "Mumbai"
    /\ last.scored
    /\ AllEqual(LastWindow)
    /\ LastWindow[1] = 1000
    /\ "Delhi" \in DOMAIN readings_buffer
    /\ readings_buffer["Delhi"] = <<1003>>
    /\ ~last.anomaly

(***************************************************************************)
(* Claims about simulate_city_data                                         *)
(***************************************************************************)
\* C17: a post to /receive_data is made only in an iteration whose probe
\* was answered 200: the loop is at the reading or at the post only after
\* such a probe; after a probe that ended in another status or in an
\* exception it sleeps 5 s and probes again, without a post.
C17_NoPostAfterFailedProbe ==
    /\ [](mpc \in {"generate", "send"} => probe = "200")
    /\ [](probe \in {"non200", "exception"} => mpc \in {"wait", "probe"})
    /\ [][posted' # posted => probe = "200" /\ iterations' = iterations]_vars
    /\ [][mpc = "wait" =>
            mpc' = "probe" /\ slept' = 5 /\ posted' = posted]_vars

\* C17 witness: the first iteration posted a reading; the probe of the
\* second failed, the loop slept 5 s and is back at the probe with still
\* one post made.
C17_Witness ==
    /\ iterations = 2
    /\ probe = "non200"
    /\ mpc = "probe"
    /\ slept = 5
    /\ posted = 1

(***************************************************************************)
(* Claims about concurrent requests                                        *)
(***************************************************************************)
Range(w) == {w[i] : i \in 1..Len(w)}

\* no request is between its arrival and its answer
Quiescent == \A t \in Threads : threads[t].pc \in {"idle", "done"}

\* C15: when no request is under way, the list of each city holds the last
\* WINDOW_SIZE values appended for it, each once: as many entries as appends
\* were made, up to WINDOW_SIZE, and none of those values missing.
C15_NoLostAppend ==
    Quiescent =>
        \A c \in Cities :
            LET w == BufferOf(readings_buffer, c)
                kept == LastN(fed[c], WINDOW_SIZE)
            IN  /\ Len(w) = Len(kept)
                /\ Range(w) = Range(kept)

\* C16: while a thread sleeps between two posts, any other thread can take
\* its next step: an idle one can take a request, one with a request under
\* way can run its next statement, up to the return of its answer.
C16_BackoffDoesNotStall ==
    \A t, u \in Threads :
        t # u /\ threads[t].pc = "sleep" =>
            IF threads[u].pc = "idle"
            THEN arrived < MaxThreadRequests => ENABLED TReceive(u)
            ELSE ENABLED TStep(u)

\* C16 witness: thread 1 is still in the sleep after its first post; thread
\* 2 took its request during that sleep and has its answer, a success.
C16_Witness ==
    /\ arrived = 2
    /\ threads[1].pc = "sleep"
    /\ threads[1].attempt = 0
    /\ threads[2].pc = "done"
    /\ threads[2].overtakes
    /\ threads[2].posts = 1
    /\ threads[2].result = Success

(***************************************************************************)
(* More claims about simulate_city_data                                    *)
(***************************************************************************)
\* C21: consecutive_failures stays within 0..5; a post answered 200 sets it
\* to 0, a post answered otherwise or ended by an exception adds one; the
\* probe, the wait after a failed probe and generate_reading leave it as it
\* is; the sleep that ends an iteration is of 30 s, with the counter set to
\* 0, exactly when the counter is 5, and of 1 to 5 s, with the counter
\* kept, otherwise.
C21_FailureCounter ==
    /\ [](consecutive_failures \in 0..5)
    /\ [][posted' # posted =>
            consecutive_failures' =
                IF sent' = "200" THEN 0 ELSE consecutive_failures + 1]_vars
    /\ [][(mpc \in {"probe", "wait", "generate"}) =>
            consecutive_failures' = consecutive_failures]_vars
    /\ [][mpc = "pause" =>
            IF consecutive_failures = 5
            THEN slept' = 30 /\ consecutive_failures' = 0
            ELSE slept' \in 1..5 /\ consecutive_failures' = consecutive_failures]_vars

\* C21 witness: five posts failed, with a failed probe among the
\* iterations; the loop has slept 30 s and the counter is back at 0.
C21_Witness ==
    /\ posted = 5
    /\ iterations = 6
    /\ sent = "neterr"
    /\ slept = 30
    /\ consecutive_failures = 0
    /\ mpc = "probe"

C22_Original ==
    last.called => ~last.anomaly

\* C22 amended: in a window of N = WINDOW_SIZE entries the squared deviation
\* of the new value never exceeds (N - 1) = 9 times the variance, so the
\* exact z-score never exceeds 3; anomaly = true is returned only for a
\* scored reading whose exact z-score equals 3, which is a window of nine
\* equal values and the new, different one.
C22_NeverAboveThreshold ==
    last.called =>
        /\ Len(LastWindow) = WINDOW_SIZE =>
               ClaimDev(LastWindow, last.power)
                   <= (WINDOW_SIZE - 1) * ClaimVar(LastWindow)
        /\ last.anomaly =>
               /\ last.scored
               /\ Len(LastWindow) = WINDOW_SIZE
               /\ ClaimVar(LastWindow) > 0
               /\ ClaimDev(LastWindow, last.power) = 9 * ClaimVar(LastWindow)
               /\ AllEqual(SubSeq(LastWindow, 1, WINDOW_SIZE - 1))
               /\ LastWindow[1] # last.power

\* C22 witness: nine readings of 1000 and then 1003, the exact z-score is 3
\* and the quotient rounds above it: the tenth reading is flagged.
C22_Witness ==
    /\ last.called
    /\ last.before = <<1000, 1000, 1000, 1000, 1000, 1000, 1000, 1000, 1000>>
    /\ last.power = 1003
    /\ last.scored
    /\ last.anomaly

\* the request in hand has been through detect_anomalies
Scored == pc \in {"post", "sleep", "done"} /\ cleaned.ok

\* the request in hand has ended in an error after detect_anomalies
EndedInError == pc = "done" /\ cleaned.ok /\ result.status # "success"

\* C23: the window update of detect_anomalies is never rolled back: when
\* receive_data ends in an error after scoring (a missing enrichment field,
\* or delivery failing on all attempts) the reading is still the newest
\* entry of the list of its city, no step of the request other than the
\* detect_anomalies call of a request changes a list, and the next call
\* scores its reading against the list as the earlier requests left it.
C23_NoRollback ==
    /\ [](Scored => LET w == readings_buffer[reading.city]
                    IN  w # <<>> /\ w[Len(w)] = cleaned.power_consumption)
    /\ [][ncalls' = ncalls => readings_buffer' = readings_buffer]_vars
    /\ [][ncalls' # ncalls =>
            /\ last'.before = BufferOf(readings_buffer, last'.city)
            /\ readings_buffer'[last'.city] =
                   AppendAndEvict(BufferOf(readings_buffer, last'.city),
                                  last'.power, WINDOW_SIZE)]_vars

\* C23 witness: the second request has been scored and delivery has failed
\* on all its attempts; its reading, 1000, is the newest entry of the list,
\* and the entry before it, 1003, is the reading of the first request, which
\* took part in the score.
C23_Witness ==
    /\ EndedInError
    /\ nreq = 2
    /\ result = Failure("Network error after multiple retries")
    /\ attempt = max_retries - 1
    /\ last.scored
    /\ last.before = <<1000, 1000, 1000, 1000, 1000, 1000, 1000, 1000, 1000, 1003>>
    /\ readings_buffer["Mumbai"] = Append(Tail(last.before), 1000)

\* C26: for every reading the edge server forwards, the row the store
\* commits has is_anomaly = 0 whatever the detector's result was: the
\* payload has the key 'anomaly' and not the key 'is_anomaly', and the row
\* is the row of this payload.
C26_StoredNeverAnomalous ==
    /\ required_fields.built =>
           /\ "anomaly" \in DOMAIN required_fields
           /\ "is_anomaly" \notin DOMAIN required_fields
           /\ required_fields.anomaly = last.anomaly
    /\ \A row \in stored :
           /\ row.is_anomaly = 0
           /\ row.city = required_fields.city
           /\ row.power_consumption = required_fields.power_consumption

\* C26 witness: the detector has flagged the reading, the payload carries
\* anomaly = true, the store has answered 200 and its row has is_anomaly = 0.
C26_Witness ==
    /\ pc = "done"
    /\ result = Success
    /\ last.scored
    /\ last.anomaly
    /\ required_fields.anomaly
    /\ stored = {[city |-> "Mumbai", power_consumption |-> 1003, is_anomaly |-> 0]}

\* C25: under any interleaving of start_simulation and stop_simulation
\* requests at most one simulate_and_send thread is alive at any time;
\* start() while running changes nothing; and when stop() returns from its
\* join no simulation thread is alive.
C25_OneSimulationThread ==
    /\ [](Cardinality({i \in SimThreads : Alive(i)}) <= 1)
    /\ [][\A h \in Handlers :
            At(h, "test") /\ running /\ handlers'[h] # handlers[h]
                => running' = running /\ thread' = thread /\ sims' = sims]_vars
    /\ [][\A h \in Handlers :
            At(h, "joining") /\ handlers'[h] # handlers[h]
                => \A i \in SimThreads : ~Alive(i)']_vars

====
